---- MODULE Spec2Model ----
(***************************************************************************)
(* A model of the video generator's API route pages/api/generate-video.ts  *)
(* together with lib/templates.ts and lib/s3.ts.                           *)
(*                                                                         *)
(* One invocation of `handler` is a run.  A run is cut into atomic steps   *)
(* at its `await`s: Node executes the code between two awaits without      *)
(* interleaving, and other runs, the clock and the file system can move    *)
(* only while a run is suspended at an await.                              *)
(***************************************************************************)
EXTENDS Integers, Sequences, FiniteSets, TLC

\* ------------------------------------------------------------------------
\* Bounds of the model
\* ------------------------------------------------------------------------

\* Date.now() readings range over 0..MaxClock (milliseconds since the first run).
MaxClock == 2

\* The handler invocations that can be in flight together.
Runs == {1, 2}

\* ------------------------------------------------------------------------
\* Values
\* ------------------------------------------------------------------------

\* A JSON body field that is absent (JavaScript's undefined).
UNDEF == "<undefined>"
\* An absent productName (texts are sequences of characters).
UNDEF_TEXT == <<"<undefined>">>
\* ffmpegPath = null
NULL == "<null>"
\* no template found
NoTemplate == [id |-> "<none>", style |-> "<none>", durationSeconds |-> 0]

\* lib/templates.ts: the registry (name and musicFile do not influence control flow;
\* musicFile is looked up by id in EncodeSpec)
templates ==
  << [id |-> "zoom-ambient", style |-> "zoom", durationSeconds |-> 6],
     [id |-> "slide-funky", style |-> "slide", durationSeconds |-> 6] >>

\* Mutant of getTemplateById: an unknown id falls back to the first template.
getTemplateOrFirst(id) ==
  LET hits == {i \in 1..Len(templates) : templates[i].id = id}
  IN  IF hits = {} THEN templates[1]
      ELSE templates[CHOOSE i \in hits : \A j \in hits : i <= j]

\* templates.find(t => t.id === id): the first match, or undefined
getTemplateById(id) ==
  LET hits == {i \in 1..Len(templates) : templates[i].id = id}
  IN  IF hits = {} THEN NoTemplate
      ELSE templates[CHOOSE i \in hits : \A j \in hits : i <= j]

\* const fps = 25
fps == 25

\* const frames = template.durationSeconds * fps
framesOf(template) == template.durationSeconds * fps

\* String(i): the decimal digits of a non-negative integer
RECURSIVE String(_)
String(i) == IF i < 10 THEN <<i>> ELSE String(i \div 10) \o <<i % 10>>

\* s.padStart(n, c): c is put in front until the length is n
RECURSIVE padStart(_, _, _)
padStart(s, n, c) == IF Len(s) >= n THEN s ELSE padStart(<<c>> \o s, n, c)

\* Mutant of frameName: the index is written without padding.
frameNameUnpadded(i) == String(i)

\* `frame-${String(i).padStart(4, '0')}.png`: a frame's file name is modelled by
\* the digits in it
frameName(i) == padStart(String(i), 4, 0)

\* The digits ffmpeg's image2 reader puts in place of %04d in 'frame-%04d.png'
\* for picture number n: at least four columns, zero-filled on the left.
sequenceName(n) ==
  LET d == String(n)
      width == IF Len(d) > 4 THEN Len(d) ELSE 4
  IN  [k \in 1..width |-> IF k <= width - Len(d) THEN 0 ELSE d[k - (width - Len(d))]]

\* JavaScript truthiness of an optional string: !s is true for undefined and for ''
Falsy(s) == s = UNDEF \/ s = ""

\* Mutant of FfmpegMissing: the availability check is dropped.
FfmpegNeverMissing(p) == FALSE

\* !ffmpegPath
FfmpegMissing(p) == p = NULL

\* String.prototype.trim on a text: strip leading and trailing white space
IsSpace(c) == c \in {" ", "\t", "\n"}

RECURSIVE trimStart(_)
trimStart(s) ==
  IF s = <<>> THEN <<>>
  ELSE IF IsSpace(Head(s)) THEN trimStart(Tail(s)) ELSE s

RECURSIVE trimEnd(_)
trimEnd(s) ==
  IF s = <<>> THEN <<>>
  ELSE IF IsSpace(s[Len(s)]) THEN trimEnd(SubSeq(s, 1, Len(s) - 1)) ELSE s

trim(s) == trimEnd(trimStart(s))

\* Mutant of showTextOf: the text is not trimmed before its length is tested.
showTextUntrimmed(productName, includeText) ==
  /\ includeText # "false"
  /\ productName # UNDEF_TEXT
  /\ Len(productName) > 0

\* const showText = includeText !== false && !!productName && productName.trim().length > 0
showTextOf(productName, includeText) ==
  /\ includeText # "false"
  /\ productName # UNDEF_TEXT
  /\ productName # <<>>
  /\ Len(trim(productName)) > 0

\* ------------------------------------------------------------------------
\* Requests
\* ------------------------------------------------------------------------

Methods == {"POST", "GET"}
ImageKeys == {UNDEF, "", "uploads/1-a.jpg"}
TemplateIds == {UNDEF, "", "zoom-ambient", "slide-funky", "no-such-template"}
ProductNames == {UNDEF_TEXT, <<>>, <<" ">>, <<"A">>, <<" ", "A", " ">>}
IncludeTexts == {UNDEF, "true", "false"}

Requests ==
  [method : Methods, imageKey : ImageKeys, templateId : TemplateIds,
   productName : ProductNames, includeText : IncludeTexts]

NoRequest ==
  [method |-> "<none>", imageKey |-> UNDEF, templateId |-> UNDEF,
   productName |-> UNDEF_TEXT, includeText |-> UNDEF]

\* ------------------------------------------------------------------------
\* State
\* ------------------------------------------------------------------------

VARIABLES
  ffmpegPath,   \* module-level `let ffmpegPath`, resolved once when the module loads
  clock,        \* what Date.now() returns
  fs,           \* the paths that exist under os.tmpdir()
  run,          \* per invocation of handler: its position and locals
  calc          \* the computation in hand, in the specifications of the pure parts

vars == <<ffmpegPath, clock, fs, run, calc>>

\* No computation in hand: the handler's specifications leave calc alone.
NoCalc == [kind |-> "none"]

\* path.join(tmpDir, `input-${Date.now()}.jpg`) and its siblings: a temp path is
\* its name prefix and the Date.now() reading in it.
Path(kind, stamp) == <<kind, stamp>>
NoPath == <<"<none>", 0>>

\* A run before its first step.
IdleRun ==
  [pc |-> "idle",
   req |-> NoRequest,
   template |-> NoTemplate,
   inputImagePath |-> NoPath,
   outputVideoPath |-> NoPath,
   framesDir |-> NoPath,
   slideInput |-> NoPath,
   audioFileAvailable |-> FALSE,
   showText |-> FALSE,
   i |-> 0,                \* the zoom loop's frame index = frames written so far
   outPath |-> <<>>,       \* the digits in the name of the last frame written
   created |-> {},         \* the temp paths this run created
   getCalls |-> 0,         \* calls of getObjectBuffer
   putCalls |-> 0,         \* calls of uploadToS3
   encCalls |-> 0,         \* ffmpeg commands started
   geomFailed |-> FALSE,   \* the zoom branch's metadata read or a frame's pipeline threw
   textFailed |-> FALSE,   \* the slide branch's inner try threw
   putFailed |-> FALSE,    \* uploadToS3 rejected
   encWithText |-> FALSE,  \* the encoder's video source carries the overlay text
   getFailed |-> FALSE,    \* getObjectBuffer rejected
   encFailed |-> FALSE,    \* the encoder emitted 'error'
   responses |-> 0,        \* res.status(..).json(..) calls
   status |-> 0,           \* the HTTP status sent
   body |-> "<none>"]      \* "videoUrl" or the error message sent

\* ------------------------------------------------------------------------
\* Module load: resolving the ffmpeg binary (generate-video.ts lines 12-40)
\* ------------------------------------------------------------------------

OverridePath == "/opt/override/ffmpeg"   \* a value of process.env.FFMPEG_PATH
BundledPath == "/node_modules/ffmpeg-static/ffmpeg"   \* ffmpeg-static's export
SystemPath == "/usr/bin/ffmpeg"          \* what which.sync('ffmpeg') finds

\* The environments a process can load the module in: FFMPEG_PATH set or not,
\* ffmpeg-static exporting a path or null, which of the two files exist, and
\* whether `ffmpeg` is on PATH (which.sync throws when it is not).
Envs ==
  [override : {NULL, OverridePath},
   bundled : {NULL, BundledPath},
   existing : SUBSET {OverridePath, BundledPath},
   which : {NULL, SystemPath}]

\* let ffmpegPath = process.env.FFMPEG_PATH || (ffmpegStatic || null)
firstCandidate(env) == IF env.override # NULL THEN env.override ELSE env.bundled

\* if (ffmpegPath && !existsSync(ffmpegPath)) ffmpegPath = null
verified(env) ==
  LET p == firstCandidate(env)
  IN  IF p # NULL /\ p \notin env.existing THEN NULL ELSE p

\* if (!ffmpegPath) { try { whichPath = which.sync('ffmpeg'); if (whichPath) ... } catch { null } }
resolveFfmpeg(env) ==
  LET p == verified(env)
  IN  IF p = NULL THEN env.which ELSE p

\* The deployments the handler is run in: FFMPEG_PATH unset, no ffmpeg on PATH,
\* the ffmpeg-static binary present or (as in a serverless build) missing.
DeployEnvs == {env \in Envs : env.override = NULL /\ env.bundled # NULL /\ env.which = NULL}

Init ==
  /\ ffmpegPath \in {resolveFfmpeg(env) : env \in DeployEnvs}
  /\ clock = 0
  /\ fs = {}
  /\ run = [r \in Runs |-> IdleRun]
  /\ calc = NoCalc

\* ------------------------------------------------------------------------
\* The handler, step by step
\* ------------------------------------------------------------------------

\* return res.status(code).json(...): the run ends; 200 ends it in "done"
respond(rec, code, body) ==
  [rec EXCEPT !.pc = IF code = 200 THEN "done" ELSE "failed",
              !.responses = @ + 1,
              !.status = code,
              !.body = body]

\* Mutant of catch: a failure restarts the download instead of ending the run.
catchRetry(rec, message) == [rec EXCEPT !.pc = "getting"]

\* catch (e) { return res.status(500).json({ error: e.message || ... }) }
\* (lines 214-217: the catch block removes nothing)
catch(rec, message) == respond(rec, 500, message)

\* Mutant of onGetRejected: the rejection is swallowed and the run goes on to encode.
onGetRejectedSwallowed(rec) ==
  [rec EXCEPT !.getFailed = TRUE, !.pc = "encoding", !.encCalls = @ + 1]

\* Line 65 into line 214: `await getObjectBuffer(imageKey)` rejects inside the try
onGetRejected(rec) == catch([rec EXCEPT !.getFailed = TRUE], "get failed")

\* Mutant of onEncoderError: .on('error', () => resolve()), the run goes on to upload.
onEncoderErrorResolved(rec) ==
  [rec EXCEPT !.encFailed = TRUE, !.pc = "uploading", !.putCalls = @ + 1]

\* Lines 145 / 195 into line 214: .on('error', (err) => reject(err)) inside the try
onEncoderError(rec) == catch([rec EXCEPT !.encFailed = TRUE], "ffmpeg failed")

\* Mutant of onPutRejected: the rejection is ignored and the URL is returned.
onPutRejectedIgnored(rec) == respond([rec EXCEPT !.putFailed = TRUE], 200, "videoUrl")

\* Line 208 into line 214: `await uploadToS3(...)` rejects inside the try
onPutRejected(rec) == catch([rec EXCEPT !.putFailed = TRUE], "put failed")

\* Mutant of onGeometryFailed: the failure is swallowed and the encoder is
\* started on the frames written so far.
onGeometryFailedSwallowed(rec, message) ==
  [rec EXCEPT !.geomFailed = TRUE, !.pc = "encoding", !.encCalls = @ + 1]

\* Lines 93-126 into line 214: sharp(imageBuffer).metadata() or a frame's
\* resize/extract/composite/toFile rejects; no try of its own, so the outer catch
onGeometryFailed(rec, message) == catch([rec EXCEPT !.geomFailed = TRUE], message)

\* Lines 50-65: validation, the ffmpeg check and the call of getObjectBuffer.
requestOutcome(rec, req, path) ==
  IF req.method # "POST" THEN respond(rec, 405, "Method not allowed")
  ELSE IF Falsy(req.imageKey) \/ Falsy(req.templateId)
    THEN respond(rec, 400, "Missing params")
  ELSE IF getTemplateById(req.templateId) = NoTemplate
    THEN respond(rec, 400, "Invalid template")
  ELSE IF FfmpegMissing(path)
    THEN respond(rec, 500, "FFmpeg binary not found")
  ELSE [rec EXCEPT !.pc = "getting",
                   !.template = getTemplateById(req.templateId),
                   !.getCalls = @ + 1]

Request(r, req) ==
  /\ run[r].pc = "idle"
  /\ run' = [run EXCEPT ![r] = requestOutcome([run[r] EXCEPT !.req = req], req, ffmpegPath)]
  /\ UNCHANGED <<ffmpegPath, clock, fs, calc>>

\* ffmpeg() ... .save(outputVideoPath): the command starts, the run awaits its end
startEncoder(rec, withText) ==
  [rec EXCEPT !.pc = "encoding",
              !.encCalls = @ + 1,
              !.encWithText = withText]

\* Lines 168-170: catch (e) { console.warn('... proceeding without text') } of
\* the slide branch's inner try; slideInput stays inputImagePath (line 155).
onOverlayFailed(rec) ==
  startEncoder([rec EXCEPT !.textFailed = TRUE,
                           !.slideInput = rec.inputImagePath], FALSE)

\* Lines 65-93 (zoom) and 65-158 (slide): getObjectBuffer has settled.
\*   got      the get resolved
\*   wrote    writeFileSync(inputImagePath) did not throw
\*   audio    statSync(musicFullPath) succeeded with size > 1024
\*   mkdir    mkdirSync(framesDir) did not throw
GetSettled(r, got, wrote, audio, mkdir) ==
  /\ run[r].pc = "getting"
  /\ LET rec == run[r]
         inp == Path("input", clock)
         out == Path("output", clock)
         dir == Path("frames", clock)
         show == showTextOf(rec.req.productName, rec.req.includeText)
         r1 == [rec EXCEPT !.inputImagePath = inp, !.outputVideoPath = out]
         r2 == [r1 EXCEPT !.created = @ \cup {inp},
                          !.audioFileAvailable = audio,
                          !.showText = show]
     IN  IF ~got THEN
           /\ run' = [run EXCEPT ![r] = onGetRejected(rec)]
           /\ fs' = fs
         ELSE IF ~wrote THEN
           /\ run' = [run EXCEPT ![r] = catch(r1, "write failed")]
           /\ fs' = fs
         ELSE IF rec.template.style = "zoom" THEN
           IF ~mkdir THEN
             /\ run' = [run EXCEPT ![r] = catch(r2, "mkdir failed")]
             /\ fs' = fs \cup {inp}
           ELSE
             /\ run' = [run EXCEPT ![r] =
                         [r2 EXCEPT !.pc = "zoomMetadata",
                                    !.framesDir = dir,
                                    !.created = @ \cup {dir}]]
             /\ fs' = fs \cup {inp, dir}
         ELSE IF show THEN
           /\ run' = [run EXCEPT ![r] =
                       [r2 EXCEPT !.pc = "slideMetadata", !.slideInput = inp]]
           /\ fs' = fs \cup {inp}
         ELSE
           /\ run' = [run EXCEPT ![r] =
                       startEncoder([r2 EXCEPT !.slideInput = inp], FALSE)]
           /\ fs' = fs \cup {inp}
  /\ UNCHANGED <<ffmpegPath, clock, calc>>

\* Lines 93-125: sharp(imageBuffer).metadata() has settled; on success the loop
\* is entered and the first frame's pipeline.png().toFile(outPath) is awaited.
ZoomMetadataSettled(r, ok) ==
  /\ run[r].pc = "zoomMetadata"
  /\ run' = [run EXCEPT ![r] =
               IF ~ok THEN onGeometryFailed(@, "metadata failed")
               ELSE IF 0 < framesOf(@.template) THEN [@ EXCEPT !.pc = "frame", !.i = 0]
               ELSE startEncoder(@, @.showText)]
  /\ UNCHANGED <<ffmpegPath, clock, fs, calc>>

\* Lines 101-132: the toFile of frame i has settled (resize, extract and, with
\* showText, the composite run inside it).  It cannot succeed once the frames
\* directory is gone.  After the last frame the encoder is started.
FrameSettled(r, ok) ==
  /\ run[r].pc = "frame"
  /\ run' = [run EXCEPT ![r] =
               IF ~ok \/ @.framesDir \notin fs THEN onGeometryFailed(@, "frame failed")
               ELSE IF @.i + 1 < framesOf(@.template)
                 THEN [@ EXCEPT !.i = @ + 1, !.outPath = frameName(run[r].i)]
               ELSE startEncoder([@ EXCEPT !.i = @ + 1, !.outPath = frameName(run[r].i)],
                                 @.showText)]
  /\ UNCHANGED <<ffmpegPath, clock, fs, calc>>

\* Lines 158-166: sharp(inputImagePath).metadata() has settled inside the inner
\* try; on success withTextPath is named and the composite's toFile is awaited.
\* Lines 168-170: the inner catch swallows a failure and the run goes on to the
\* encoder with slideInput = inputImagePath.
SlideMetadataSettled(r, ok) ==
  /\ run[r].pc = "slideMetadata"
  /\ run' = [run EXCEPT ![r] =
               IF ~ok \/ @.inputImagePath \notin fs THEN onOverlayFailed(@)
               ELSE [@ EXCEPT !.pc = "slideComposite",
                              !.slideInput = Path("slide-input", clock)]]
  /\ UNCHANGED <<ffmpegPath, clock, fs, calc>>

\* Lines 166-171: the composite's toFile(withTextPath) has settled.
SlideCompositeSettled(r, ok) ==
  /\ run[r].pc = "slideComposite"
  /\ LET rec == run[r]
         withTextPath == rec.slideInput
     IN  IF ~ok \/ rec.inputImagePath \notin fs THEN
           /\ run' = [run EXCEPT ![r] = onOverlayFailed(rec)]
           /\ fs' = fs
         ELSE
           /\ run' = [run EXCEPT ![r] =
                       startEncoder([rec EXCEPT !.created = @ \cup {withTextPath}], TRUE)]
           /\ fs' = fs \cup {withTextPath}
  /\ UNCHANGED <<ffmpegPath, clock, calc>>

\* The file or directory the encoder reads its pictures from.
videoSource(rec) == IF rec.template.style = "zoom" THEN rec.framesDir ELSE rec.slideInput

\* Lines 145-151 / 195-207: the ffmpeg command has ended.
\*   ok     it emitted 'end' (it emits 'error' when its input is gone)
\*   read   readFileSync(outputVideoPath) did not throw
\* On 'end' the frames directory (zoom) or the composite (slide) is removed, the
\* output is read back and uploadToS3 is called.
EncoderSettled(r, ok, read) ==
  /\ run[r].pc = "encoding"
  /\ LET rec == run[r]
         made == [rec EXCEPT !.created = @ \cup {rec.outputVideoPath}]
         scratch == IF rec.template.style = "zoom" THEN {rec.framesDir}
                    ELSE {rec.slideInput} \ {rec.inputImagePath}
     IN  IF ~ok \/ videoSource(rec) \notin fs THEN
           /\ run' = [run EXCEPT ![r] = onEncoderError(rec)]
           /\ fs' = fs
         ELSE IF ~read THEN
           /\ run' = [run EXCEPT ![r] = catch(made, "read failed")]
           /\ fs' = (fs \cup {rec.outputVideoPath}) \ scratch
         ELSE
           /\ run' = [run EXCEPT ![r] = [made EXCEPT !.pc = "uploading", !.putCalls = @ + 1]]
           /\ fs' = (fs \cup {rec.outputVideoPath}) \ scratch
  /\ UNCHANGED <<ffmpegPath, clock, calc>>

\* Lines 207-213: uploadToS3 has settled; on success both files are unlinked
\* (unlinkSync throws when the file is gone) and the URL is returned.
UploadSettled(r, ok) ==
  /\ run[r].pc = "uploading"
  /\ LET rec == run[r]
     IN  IF ~ok THEN
           /\ run' = [run EXCEPT ![r] = onPutRejected(rec)]
           /\ fs' = fs
         ELSE IF rec.inputImagePath \notin fs THEN
           /\ run' = [run EXCEPT ![r] = catch(rec, "ENOENT")]
           /\ fs' = fs
         ELSE IF rec.outputVideoPath \notin fs THEN
           /\ run' = [run EXCEPT ![r] = catch(rec, "ENOENT")]
           /\ fs' = fs \ {rec.inputImagePath}
         ELSE
           /\ run' = [run EXCEPT ![r] = respond(rec, 200, "videoUrl")]
           /\ fs' = fs \ {rec.inputImagePath, rec.outputVideoPath}
  /\ UNCHANGED <<ffmpegPath, clock, calc>>

\* A millisecond passes.
Tick ==
  /\ clock < MaxClock
  /\ clock' = clock + 1
  /\ UNCHANGED <<ffmpegPath, fs, run, calc>>

Step(r, requests) ==
  \/ \E req \in requests : Request(r, req)
  \/ \E got, wrote, audio, mkdir \in BOOLEAN : GetSettled(r, got, wrote, audio, mkdir)
  \/ \E ok \in BOOLEAN : ZoomMetadataSettled(r, ok)
  \/ \E ok \in BOOLEAN : FrameSettled(r, ok)
  \/ \E ok \in BOOLEAN : SlideMetadataSettled(r, ok)
  \/ \E ok \in BOOLEAN : SlideCompositeSettled(r, ok)
  \/ \E ok, read \in BOOLEAN : EncoderSettled(r, ok, read)
  \/ \E ok \in BOOLEAN : UploadSettled(r, ok)

\* One request at a time.
Next == Tick \/ Step(1, Requests)

Spec == Init /\ [][Next]_vars

\* Two requests in flight, both well-formed.  The first uses either template,
\* the second the slide template, so that one frame loop runs at a time.
ConcRequests(r) ==
  {req \in Requests :
     /\ req.method = "POST"
     /\ req.imageKey = "uploads/1-a.jpg"
     /\ req.templateId \in (IF r = 1 THEN {"zoom-ambient", "slide-funky"} ELSE {"slide-funky"})
     /\ req.productName = <<"A">>
     /\ req.includeText \in {"true", "false"}}

NextConc == Tick \/ \E r \in Runs : Step(r, ConcRequests(r))

SpecConc == Init /\ [][NextConc]_vars

\* ------------------------------------------------------------------------
\* The encoder's output duration (generate-video.ts lines 71-79, 130-147, 180-197)
\* ------------------------------------------------------------------------

\* Music files on disk last 1..MaxMusicSeconds seconds.
MaxMusicSeconds == 8

\* audioFileAvailable = stat.size > 1024
MinAudioBytes == 1024

\* What statSync(musicFullPath) can find: no file (it throws), or a file of some size.
NoFile == 0 - 1
MusicSizes == {NoFile, 0, 512, MinAudioBytes, MinAudioBytes + 1, 4096}

\* try { audioFileAvailable = statSync(..).size > 1024 } catch { audioFileAvailable = false }
audioAvailable(size) == size # NoFile /\ size > MinAudioBytes

\* A stream without end: a looped still image (-loop 1), the lavfi anullsrc source.
Endless == 0 - 1

\* min over stream lengths in milliseconds, Endless being the largest
Shorter(a, b) ==
  IF a = Endless THEN b ELSE IF b = Endless THEN a ELSE IF a <= b THEN a ELSE b

\* The video input: zoom reads the image sequence frame-%04d.png at -framerate 25,
\* slide reads one image with -loop 1.
videoStreamMs(template, framesWritten) ==
  IF template.style = "zoom" THEN (framesWritten * 1000) \div fps ELSE Endless

\* The audio input: cmd.input(musicFullPath) when audioFileAvailable, else
\* anullsrc through lavfi.
audioStreamMs(available, musicMs) == IF available THEN musicMs ELSE Endless

\* outputOptions(['-y', `-t ${template.durationSeconds}`, ..., '-shortest']):
\* -t caps the output at durationSeconds, -shortest ends it with the shortest input.
outputDurationMs(template, framesWritten, available, musicMs) ==
  Shorter(template.durationSeconds * 1000,
          Shorter(videoStreamMs(template, framesWritten),
                  audioStreamMs(available, musicMs)))

\* The pure parts are computed with no request in flight.
NoHandler ==
  /\ ffmpegPath = NULL
  /\ clock = 0
  /\ fs = {}
  /\ run = [r \in Runs |-> IdleRun]

EncodeInit ==
  /\ NoHandler
  /\ \E k \in 1..Len(templates), size \in MusicSizes, secs \in 1..MaxMusicSeconds :
       calc = [kind |-> "encode", phase |-> "start", template |-> templates[k],
               musicSize |-> size, musicMs |-> secs * 1000,
               audioFileAvailable |-> FALSE, outMs |-> 0]

\* Lines 72-79: the music file is looked at.
StatMusic ==
  /\ calc.kind = "encode" /\ calc.phase = "start"
  /\ calc' = [calc EXCEPT !.phase = "statted",
                           !.audioFileAvailable = audioAvailable(calc.musicSize)]
  /\ UNCHANGED <<ffmpegPath, clock, fs, run>>

\* Lines 130-147 / 180-197: the encoder runs to its end over all the frames.
Encode ==
  /\ calc.kind = "encode" /\ calc.phase = "statted"
  /\ calc' = [calc EXCEPT !.phase = "encoded",
                           !.outMs = outputDurationMs(calc.template, framesOf(calc.template),
                                                      calc.audioFileAvailable, calc.musicMs)]
  /\ UNCHANGED <<ffmpegPath, clock, fs, run>>

EncodeNext == StatMusic \/ Encode

EncodeSpec == EncodeInit /\ [][EncodeNext]_vars

\* ------------------------------------------------------------------------
\* Zoom geometry (generate-video.ts lines 93-117)
\* ------------------------------------------------------------------------

\* JavaScript numbers are modelled in fixed point: a real x is the integer
\* nearest to x * SCALE.
SCALE == 10 ^ 4

\* Math.PI
PI == (31416 * SCALE) \div 10000

\* the output canvas: 1280 x 720
OUT_W == 1280
OUT_H == 720

\* const zoomFactor = 0.6, in tenths
zoomFactorTenths == 6

\* a / b rounded to the nearest integer (a >= 0, b > 0)
DivRound(a, b) == (2 * a + b) \div (2 * b)

Max(a, b) == IF a >= b THEN a ELSE b
Min(a, b) == IF a <= b THEN a ELSE b

\* Math.round of the fixed-point x: the nearest integer, halves upwards
Round(x) == (2 * x + SCALE) \div (2 * SCALE)

\* Math.cos on [0, PI/2], by its Taylor polynomial up to x^10 in Horner form:
\* 1 - y/2 (1 - y/12 (1 - y/30 (1 - y/56 (1 - y/90)))) with y = x^2
cosQuarter(x) ==
  LET y == (x * x) \div SCALE
      a5 == SCALE - y \div 90
      a4 == SCALE - ((y * a5) \div SCALE) \div 56
      a3 == SCALE - ((y * a4) \div SCALE) \div 30
      a2 == SCALE - ((y * a3) \div SCALE) \div 12
  IN  SCALE - ((y * a2) \div SCALE) \div 2

\* Math.cos(Math.PI * t) for t = num / den in [0, 1]: cos(PI - x) = -cos(x)
cosPi(num, den) ==
  IF 2 * num <= den THEN cosQuarter((PI * num) \div den)
  ELSE 0 - cosQuarter((PI * (den - num)) \div den)

\* const easeInOutSine = (t) => (1 - Math.cos(Math.PI * t)) / 2
easeInOutSine(num, den) == (SCALE - cosPi(num, den)) \div 2

\* const iw = metadata.width || 1280 ; const ih = metadata.height || 720
imageWidth(metaW) == IF metaW = 0 THEN OUT_W ELSE metaW
imageHeight(metaH) == IF metaH = 0 THEN OUT_H ELSE metaH

\* const minFactor = Math.max(1280 / iw, 720 / ih)
minFactorOf(iw, ih) == Max(DivRound(OUT_W * SCALE, iw), DivRound(OUT_H * SCALE, ih))

\* const t = frames === 1 ? 1 : i / (frames - 1) ; const et = easeInOutSine(t)
easedTime(i, frames) ==
  IF frames = 1 THEN easeInOutSine(1, 1) ELSE easeInOutSine(i, frames - 1)

\* Mutant of scaleFactor: the floor `factor = Math.max(factor, minFactor)` is missing.
scaleFactorUnfloored(iw, ih, i, frames) ==
  SCALE + (zoomFactorTenths * easedTime(i, frames)) \div 10

\* let factor = 1 + zoomFactor * et ; factor = Math.max(factor, minFactor)
scaleFactor(iw, ih, i, frames) ==
  Max(SCALE + (zoomFactorTenths * easedTime(i, frames)) \div 10, minFactorOf(iw, ih))

\* What sharp's metadata() reports for the images tried: <<width, height>>;
\* <<0, 0>> is an image whose metadata carries no dimensions.
ImageSizes ==
  { <<1280, 720>>, <<1920, 1080>>, <<640, 480>>, <<800, 1200>>, <<4000, 500>>,
    <<1281, 721>>, <<1000, 1000>>, <<100, 100>>, <<3000, 2000>>, <<0, 0>> }

\* Lines 108-117: the resize target and the window handed to extract.
\*   floatScaledW = iw * factor ; scaledW = Math.round(floatScaledW)
\*   left = Math.max(0, Math.round((floatScaledW - 1280) / 2))
\*   width = Math.min(1280, scaledW)           and the same for the height
zoomWindow(iw, ih, factor) ==
  LET floatScaledW == iw * factor
      floatScaledH == ih * factor
      scaledW == Round(floatScaledW)
      scaledH == Round(floatScaledH)
  IN  [scaledW |-> scaledW,
       scaledH |-> scaledH,
       left |-> Max(0, Round((floatScaledW - OUT_W * SCALE) \div 2)),
       top |-> Max(0, Round((floatScaledH - OUT_H * SCALE) \div 2)),
       width |-> Min(OUT_W, scaledW),
       height |-> Min(OUT_H, scaledH)]

\* Line 176: `scale=1280:-1`: the width becomes 1280, the height follows the
\* image's aspect ratio.
slideScaledW(iw, ih) == OUT_W
slideScaledH(iw, ih) == DivRound(ih * OUT_W, iw)

\* Line 177: x='min(max(0,(iw-1280)*n/${slideFrames}),iw-1280)', where the crop
\* filter's iw is the width of its own input, the scaled picture.  In fixed point.
slideCropX(w, n, slideFrames) ==
  Min(Max(0, ((w - OUT_W) * n * SCALE) \div slideFrames), (w - OUT_W) * SCALE)

\* Line 177: crop=1280:720:x=..:y=0 applied to the scaled picture; the filter
\* takes the integer part of x.
slideWindow(iw, ih, n, slideFrames) ==
  [scaledW |-> slideScaledW(iw, ih),
   scaledH |-> slideScaledH(iw, ih),
   left |-> slideCropX(slideScaledW(iw, ih), n, slideFrames) \div SCALE,
   top |-> 0,
   width |-> OUT_W,
   height |-> OUT_H]

NoWindow ==
  [scaledW |-> 0, scaledH |-> 0, left |-> 0, top |-> 0, width |-> 0, height |-> 0]

NoFrame == [index |-> 0 - 1, factor |-> 0, minFactor |-> 0, window |-> NoWindow]

GeomInit ==
  /\ NoHandler
  /\ \E size \in ImageSizes, k \in 1..Len(templates) :
       calc = [kind |-> templates[k].style, template |-> templates[k],
               metaW |-> size[1],
               iw |-> imageWidth(size[1]), ih |-> imageHeight(size[2]),
               i |-> 0, frame |-> NoFrame, previous |-> NoFrame]

\* Lines 101-117: one pass of the loop body computes frame i's geometry.
ZoomFrame ==
  /\ calc.kind = "zoom"
  /\ calc.i < framesOf(calc.template)
  /\ calc' = [calc EXCEPT
       !.i = @ + 1,
       !.previous = calc.frame,
       !.frame = [index |-> calc.i,
                  factor |-> scaleFactor(calc.iw, calc.ih, calc.i, framesOf(calc.template)),
                  minFactor |-> minFactorOf(calc.iw, calc.ih),
                  window |-> zoomWindow(calc.iw, calc.ih,
                               scaleFactor(calc.iw, calc.ih, calc.i, framesOf(calc.template)))]]
  /\ UNCHANGED <<ffmpegPath, clock, fs, run>>

\* Lines 173-178: the encoder's filter chain produces output frame n of the
\* slide clip: fps, scale, then the crop whose x depends on n.
SlideFrame ==
  /\ calc.kind = "slide"
  /\ calc.i < framesOf(calc.template)
  /\ calc' = [calc EXCEPT
       !.i = @ + 1,
       !.previous = calc.frame,
       !.frame = [index |-> calc.i, factor |-> 0, minFactor |-> 0,
                  window |-> slideWindow(calc.iw, calc.ih, calc.i,
                                         framesOf(calc.template))]]
  /\ UNCHANGED <<ffmpegPath, clock, fs, run>>

GeomNext == ZoomFrame \/ SlideFrame

GeomSpec == GeomInit /\ [][GeomNext]_vars

\* ------------------------------------------------------------------------
\* The overlay text (generate-video.ts lines 118-123 and 162-164)
\* ------------------------------------------------------------------------

\* Overlay texts have at most MaxTextLen characters.
MaxTextLen == 4

\* The characters tried: the five XML metacharacters, a letter and a blank.
Chars == {"&", "<", ">", "\"", "'", "l", " "}

RECURSIVE TextsOfLen(_)
TextsOfLen(n) ==
  IF n = 0 THEN {<<>>}
  ELSE {<<c>> \o t : c \in Chars, t \in TextsOfLen(n - 1)}

Texts == UNION {TextsOfLen(n) : n \in 0..MaxTextLen}

\* str.replace(/c/g, by): every occurrence of the character c becomes the text by
RECURSIVE replaceAll(_, _, _)
replaceAll(str, c, by) ==
  IF str = <<>> THEN <<>>
  ELSE (IF Head(str) = c THEN by ELSE <<Head(str)>>) \o replaceAll(Tail(str), c, by)

AMP == <<"&", "a", "m", "p", ";">>
LT == <<"&", "l", "t", ";">>
GT == <<"&", "g", "t", ";">>
QUOT == <<"&", "q", "u", "o", "t", ";">>
APOS == <<"&", "a", "p", "o", "s", ";">>

\* Mutant of escapeXml: the ampersand is replaced last, after the entities
\* that contain one have been written.
escapeXmlAmpLast(str) ==
  replaceAll(replaceAll(replaceAll(replaceAll(replaceAll(str,
    "<", LT), ">", GT), "\"", QUOT), "'", APOS), "&", AMP)

\* const escapeXml = (str) => str.replace(/&/g, '&amp;').replace(/</g, '&lt;')
\*   .replace(/>/g, '&gt;').replace(/"/g, '&quot;').replace(/'/g, '&apos;')
\* (line 119 for the zoom frames, line 162 for the slide image: the same chain)
escapeXml(str) ==
  replaceAll(replaceAll(replaceAll(replaceAll(replaceAll(str,
    "&", AMP), "<", LT), ">", GT), "\"", QUOT), "'", APOS)

\* const text = escapeXml(productName!.trim())    (lines 120 and 163)
overlayText(productName) == escapeXml(trim(productName))

EscapeInit ==
  /\ NoHandler
  /\ \E text \in Texts, k \in 1..Len(templates) :
       calc = [kind |-> "overlay", style |-> templates[k].style,
               productName |-> text, escaped |-> FALSE, text |-> <<>>]

\* Lines 118-122 (zoom) and 156-164 (slide): with showText, the text that goes
\* into the SVG markup is computed.
EscapeText ==
  /\ calc.kind = "overlay" /\ ~calc.escaped
  /\ showTextOf(calc.productName, UNDEF)
  /\ calc' = [calc EXCEPT !.escaped = TRUE, !.text = overlayText(calc.productName)]
  /\ UNCHANGED <<ffmpegPath, clock, fs, run>>

EscapeNext == EscapeText

EscapeSpec == EscapeInit /\ [][EscapeNext]_vars

\* ------------------------------------------------------------------------
\* Module load, statement by statement (generate-video.ts lines 14-34; the
\* health check's detectFfmpeg() runs the same three statements)
\* ------------------------------------------------------------------------

ResolveInit ==
  /\ NoHandler
  /\ \E env \in Envs : calc = [kind |-> "resolve", phase |-> "load", env |-> env]

\* Line 14: let ffmpegPath = process.env.FFMPEG_PATH || (ffmpegStatic || null)
PickCandidate ==
  /\ calc.kind = "resolve" /\ calc.phase = "load"
  /\ ffmpegPath' = firstCandidate(calc.env)
  /\ calc' = [calc EXCEPT !.phase = "picked"]
  /\ UNCHANGED <<clock, fs, run>>

\* Lines 16-20: if (ffmpegPath && !existsSync(ffmpegPath)) ffmpegPath = null
VerifyCandidate ==
  /\ calc.kind = "resolve" /\ calc.phase = "picked"
  /\ ffmpegPath' = verified(calc.env)
  /\ calc' = [calc EXCEPT !.phase = "verified"]
  /\ UNCHANGED <<clock, fs, run>>

\* Lines 22-34: if (!ffmpegPath) the PATH is searched with which.sync
SearchPath ==
  /\ calc.kind = "resolve" /\ calc.phase = "verified"
  /\ ffmpegPath' = resolveFfmpeg(calc.env)
  /\ calc' = [calc EXCEPT !.phase = "resolved"]
  /\ UNCHANGED <<clock, fs, run>>

ResolveNext == PickCandidate \/ VerifyCandidate \/ SearchPath

ResolveSpec == ResolveInit /\ [][ResolveNext]_vars

\* ------------------------------------------------------------------------
\* The orchestrator's stages (spec section 4.6), read off a run's position
\* ------------------------------------------------------------------------

Stage(rec) ==
  CASE rec.pc = "idle" -> "Idle"
    [] rec.pc = "getting" -> "Downloading"
    [] rec.pc \in {"zoomMetadata", "frame", "slideMetadata", "slideComposite"} -> "Rendering"
    [] rec.pc = "encoding" -> "Encoding"
    [] rec.pc = "uploading" -> "Uploading"
    [] rec.pc = "done" -> "Done"
    [] rec.pc = "failed" -> "Failed"

Returned(rec) == rec.pc \in {"done", "failed"}

RegistryIds == {templates[k].id : k \in 1..Len(templates)}

\* A request that passes validation.
WellFormed(req) ==
  /\ req.method = "POST"
  /\ req.imageKey \notin {UNDEF, ""}
  /\ req.templateId \in RegistryIds

\* ------------------------------------------------------------------------
\* Claims
\* ------------------------------------------------------------------------

\* C1: every temporary artifact a run created is gone from the temp directory
\* by the time the run has returned, on success and on every failure.
\* (The catch block removes nothing: violated.)
C1_NoTempLeftAfterReturn ==
  \A r \in Runs : Returned(run[r]) => run[r].created \cap fs = {}

\* C2: with no encoder binary located, a well-formed request ends with the
\* encoder-unavailable error and has made no storage get, created no temporary
\* file and rendered no frame.
C2_EncoderMissingFailsFast ==
  \A r \in Runs :
    (ffmpegPath = NULL /\ run[r].pc # "idle" /\ WellFormed(run[r].req)) =>
      /\ run[r].pc = "failed"
      /\ run[r].status = 500
      /\ run[r].body = "FFmpeg binary not found"
      /\ run[r].getCalls = 0
      /\ run[r].created = {}
      /\ run[r].i = 0
      /\ run[r].encCalls = 0

C2_Witness ==
  \E r \in Runs :
    /\ ffmpegPath = NULL
    /\ WellFormed(run[r].req)
    /\ run[r].responses = 1
    /\ run[r].body = "FFmpeg binary not found"

\* C3: when the storage get fails, the run starts no encoder, makes no storage
\* put, leaves no temporary file, and answers with an error.
C3_GetFailureStopsRun ==
  \A r \in Runs :
    run[r].getFailed =>
      /\ run[r].encCalls = 0
      /\ run[r].putCalls = 0
      /\ run[r].created = {}
      /\ run[r].pc = "failed"
      /\ run[r].status = 500

C3_Witness ==
  \E r \in Runs : run[r].getFailed /\ run[r].getCalls = 1 /\ run[r].responses = 1

\* C4: two runs that are in flight together have created no temporary path in
\* common.  (The paths are named by Date.now() alone: violated.)
C4_TempPathsDistinct ==
  \A r1, r2 \in Runs :
    (r1 # r2 /\ ~Returned(run[r1]) /\ ~Returned(run[r2])) =>
      run[r1].created \cap run[r2].created = {}

\* C5 as stated: a run moves Idle, Downloading, Rendering, Encoding, Uploading,
\* Done one stage at a time, or from a stage before Done to Failed, and nowhere else.
StageChain ==
  { <<"Idle", "Downloading">>, <<"Downloading", "Rendering">>,
    <<"Rendering", "Encoding">>, <<"Encoding", "Uploading">>,
    <<"Uploading", "Done">> }

WorkingStages == {"Idle", "Downloading", "Rendering", "Encoding", "Uploading"}

ChainStep(a, b) ==
  \/ a = b
  \/ <<a, b>> \in StageChain
  \/ a \in WorkingStages /\ b = "Failed"

C5_StrictStageOrder ==
  [][\A r \in Runs : ChainStep(Stage(run[r]), Stage(run'[r]))]_vars

\* C5 amended: as C5, except that a slide run that shows no text has nothing to
\* render and goes from Downloading straight to Encoding.
C5_StageOrderWithSlideSkip ==
  [][\A r \in Runs :
       \/ ChainStep(Stage(run[r]), Stage(run'[r]))
       \/ /\ Stage(run[r]) = "Downloading"
          /\ Stage(run'[r]) = "Encoding"
          /\ run'[r].template.style = "slide"
          /\ ~run'[r].showText]_vars

C5_Witness ==
  \E r \in Runs :
    /\ run[r].pc = "done"
    /\ run[r].template.style = "slide"
    /\ ~run[r].showText
    /\ run[r].getCalls = 1 /\ run[r].encCalls = 1 /\ run[r].putCalls = 1

\* C6: a request without image key or template id, or with a template id the
\* registry does not know, is answered with an error (400 when it is a POST)
\* with no storage get, no temporary file, no frame and no encoder run.
BadParams(req) ==
  \/ req.imageKey \in {UNDEF, ""}
  \/ req.templateId \in {UNDEF, ""}
  \/ req.templateId \notin RegistryIds

C6_BadParamsRejectedEarly ==
  \A r \in Runs :
    (run[r].pc # "idle" /\ BadParams(run[r].req)) =>
      /\ run[r].pc = "failed"
      /\ run[r].status \in {400, 405}
      /\ (run[r].req.method = "POST" => run[r].status = 400)
      /\ run[r].getCalls = 0
      /\ run[r].created = {}
      /\ run[r].i = 0
      /\ run[r].encCalls = 0

C6_Witness ==
  \E r \in Runs :
    /\ run[r].req.method = "POST"
    /\ run[r].req.imageKey = "uploads/1-a.jpg"
    /\ run[r].req.templateId = "no-such-template"
    /\ run[r].status = 400
    /\ run[r].body = "Invalid template"

\* Text was requested and the overlay text is absent, empty or all white space.
BlankText(t) == t = UNDEF_TEXT \/ \A k \in 1..Len(t) : t[k] \in {" ", "\t", "\n"}

TextRequestedBlank(req) == req.includeText = "true" /\ BlankText(req.productName)

\* C7 as stated: such a request is rejected before any processing: no storage
\* get, no encoder run, no video.
C7_BlankTextRejected ==
  \A r \in Runs :
    (run[r].pc # "idle" /\ TextRequestedBlank(run[r].req)) =>
      /\ run[r].getCalls = 0
      /\ run[r].encCalls = 0
      /\ run[r].status # 200

\* C7 amended: such a request is not rejected for its text; it is processed with
\* the overlay switched off: showText is false, no composite is made, the
\* encoder's pictures carry no text, and validation lets it through to the get.
C7_BlankTextSkipsOverlay ==
  \A r \in Runs :
    (run[r].pc # "idle" /\ TextRequestedBlank(run[r].req)) =>
      /\ ~run[r].showText
      /\ ~run[r].encWithText
      /\ run[r].pc \notin {"slideMetadata", "slideComposite"}
      /\ \A p \in run[r].created : p[1] # "slide-input"
      /\ (WellFormed(run[r].req) /\ ffmpegPath # NULL) => run[r].getCalls = 1

C7_Witness ==
  \E r \in Runs :
    /\ run[r].req.includeText = "true"
    /\ run[r].req.productName = <<" ">>
    /\ run[r].status = 200
    /\ run[r].encCalls = 1

\* C8: when the encoder fails, in either style, the run makes no storage put,
\* returns no video URL and answers with an error.
C8_EncoderFailureIsFatal ==
  \A r \in Runs :
    run[r].encFailed =>
      /\ run[r].putCalls = 0
      /\ run[r].pc = "failed"
      /\ run[r].status = 500
      /\ run[r].body # "videoUrl"

C8_Witness ==
  /\ run[1].encFailed /\ run[1].template.style = "zoom" /\ run[1].responses = 1
  /\ run[2].encFailed /\ run[2].template.style = "slide" /\ run[2].responses = 1

\* C9: the output lasts template.durationSeconds exactly, whatever the audio
\* source.  (A music file shorter than the template ends the output early
\* through -shortest: violated.)
C9_DurationExact ==
  (calc.kind = "encode" /\ calc.phase = "encoded") =>
    calc.outMs = calc.template.durationSeconds * 1000

\* C10: in the zoom style, every frame's scale factor is at least
\* max(1280/iw, 720/ih), and no frame's factor is below the frame before it.
C10_FactorFlooredAndNonDecreasing ==
  (calc.kind = "zoom" /\ calc.frame.index >= 0) =>
    /\ calc.frame.factor * calc.iw >= OUT_W * SCALE - calc.iw
    /\ calc.frame.factor * calc.ih >= OUT_H * SCALE - calc.ih
    /\ calc.frame.factor >= calc.frame.minFactor
    /\ calc.previous.index >= 0 =>
         /\ calc.frame.index = calc.previous.index + 1
         /\ calc.frame.factor >= calc.previous.factor

\* the last frame of a 1920 x 1080 image has been computed: the easing, not the
\* floor, decides its factor, which is above the frame before it
C10_Witness ==
  /\ calc.kind = "zoom"
  /\ calc.frame.index = framesOf(calc.template) - 1
  /\ calc.frame.index > 0
  /\ calc.iw = 1920
  /\ calc.frame.factor > calc.previous.factor
  /\ calc.frame.factor > calc.frame.minFactor

\* A crop window lies inside the picture it is cut from.
WindowInside(w) ==
  /\ 0 <= w.left
  /\ 0 <= w.top
  /\ w.left + w.width <= w.scaledW
  /\ w.top + w.height <= w.scaledH

\* C11: every crop window computed, per zoom frame and per slide frame, lies
\* inside the scaled picture.  (The slide crop is 720 high whatever the scaled
\* height is: violated for images wider than 16:9.)
C11_CropWindowInside ==
  (calc.kind \in {"zoom", "slide"} /\ calc.frame.index >= 0) =>
    WindowInside(calc.frame.window)

\* C12: the slide crop's x is clamp(0, (W-1280)*n/N, W-1280) with y = 0, never
\* decreases from one frame to the next, and for a source wider than 1280 is
\* larger at the last frame than at the first.  (W is 1280 after scale=1280:-1,
\* so x is 0 at every frame: violated.)
C12_SlidePansLeftToRight ==
  (calc.kind = "slide" /\ calc.frame.index >= 0) =>
    LET w == calc.frame.window.scaledW
        n == calc.frame.index
        frames == calc.template.durationSeconds * 25
        wanted == ((w - 1280) * n * SCALE) \div frames
        clamped == IF wanted < 0 THEN 0
                   ELSE IF wanted > (w - 1280) * SCALE THEN (w - 1280) * SCALE
                   ELSE wanted
    IN  /\ calc.frame.window.left = clamped \div SCALE
        /\ calc.frame.window.top = 0
        /\ calc.previous.index >= 0 => calc.frame.window.left >= calc.previous.window.left
        /\ (calc.metaW > 1280 /\ n = frames - 1) => calc.frame.window.left > 0

\* The five entities and the characters they stand for.
Entities ==
  { <<AMP, "&">>, <<LT, "<">>, <<GT, ">">>, <<QUOT, "\"">>, <<APOS, "'">> }

\* the text t has the text e at position k
HasAt(t, k, e) == k + Len(e) - 1 <= Len(t) /\ SubSeq(t, k, k + Len(e) - 1) = e

\* Reading markup text back: each entity becomes its character.
RECURSIVE Unescape(_)
Unescape(t) ==
  IF t = <<>> THEN <<>>
  ELSE LET hit == {e \in Entities : HasAt(t, 1, e[1])}
       IN  IF hit = {} THEN <<Head(t)>> \o Unescape(Tail(t))
           ELSE LET e == CHOOSE x \in hit : TRUE
                IN  <<e[2]>> \o Unescape(SubSeq(t, Len(e[1]) + 1, Len(t)))

\* the overlay text without its leading and trailing blanks, stated on its own
Stripped(t) ==
  LET keep == {k \in 1..Len(t) : t[k] # " "}
  IN  IF keep = {} THEN <<>>
      ELSE SubSeq(t, CHOOSE a \in keep : \A b \in keep : a <= b,
                     CHOOSE a \in keep : \A b \in keep : a >= b)

\* C13: the text embedded in the SVG, in either style, has no raw < > " ',
\* each of its & starts one of the five entities, and unescaping it gives the
\* trimmed product name back.
C13_OverlayTextEscaped ==
  (calc.kind = "overlay" /\ calc.escaped) =>
    /\ \A k \in 1..Len(calc.text) : calc.text[k] \notin {"<", ">", "\"", "'"}
    /\ \A k \in 1..Len(calc.text) :
         calc.text[k] = "&" => \E e \in Entities : HasAt(calc.text, k, e[1])
    /\ Unescape(calc.text) = Stripped(calc.productName)

\* a text with an ampersand, an entity look-alike and a bracket has been escaped
C13_Witness ==
  /\ calc.kind = "overlay" /\ calc.escaped
  /\ calc.productName = <<" ", "&", "l", "<">>
  /\ calc.text = <<"&", "a", "m", "p", ";", "l", "&", "l", "t", ";">>

ExistingCandidates(env) ==
  SelectSeq(<<env.override, env.bundled>>, LAMBDA p : p # NULL /\ p \in env.existing)
    \o (IF env.which # NULL THEN <<env.which>> ELSE <<>>)

\* C15: once the module has loaded, ffmpegPath is the first candidate that
\* exists in the order override path, bundled binary, PATH search, and null
\* only when none exists; so with the override set but missing and the
\* bundled binary present, the bundled binary is chosen.
C15_FirstExistingCandidate ==
  (calc.kind = "resolve" /\ calc.phase = "resolved") =>
    ffmpegPath = (IF ExistingCandidates(calc.env) = <<>> THEN NULL
                  ELSE Head(ExistingCandidates(calc.env)))
\* A step that changes a run's frame index has written the frame of the next
\* index, under the name the encoder's sequence pattern has for that index.
WritesNextFrame(r) ==
  run'[r].i # run[r].i =>
    /\ run'[r].i = run[r].i + 1
    /\ run'[r].outPath = sequenceName(run[r].i)

\* The encoder of a zoom run has been started only with all N frames written.
EncoderAfterAllFrames ==
  \A r \in Runs :
    LET rec == run[r] IN
      /\ rec.i \in 0..framesOf(rec.template)
      /\ (rec.template.style = "zoom" /\ rec.encCalls > 0) => rec.i = framesOf(rec.template)
      /\ rec.template.style # "zoom" => rec.i = 0

\* C16: for every template of the registry N = durationSeconds * 25 is
\* positive; a zoom run writes its frames one index at a time from 0, each under
\* the zero-padded name the encoder's pattern frame-%04d.png reads for that
\* index, and the encoder is started only once all N are written.
C16_AllFramesThenEncoder ==
  [][/\ \A k \in 1..Len(templates) : framesOf(templates[k]) > 0
     /\ \A r \in Runs : WritesNextFrame(r)
     /\ EncoderAfterAllFrames']_vars

\* A zoom run answered 200 after writing frames 0000..0149.
C16_Witness ==
  /\ run[1].template.style = "zoom" /\ run[1].status = 200
  /\ run[1].i = 150 /\ run[1].outPath = <<0, 1, 4, 9>>
\* A run's answer so far: none while it works, exactly one once it has ended;
\* 200 carries the video URL and is sent only with the get, the rendering, the
\* encoder and the put all done without failure; any other answer is 405, 400
\* or 500.
OneAnswer(rec) ==
  /\ rec.responses = (IF Returned(rec) THEN 1 ELSE 0)
  /\ rec.pc = "done" <=> rec.status = 200
  /\ rec.status = 200 =>
        /\ rec.body = "videoUrl"
        /\ rec.getCalls = 1 /\ ~rec.getFailed
        /\ ~rec.geomFailed
        /\ rec.template.style = "zoom" => rec.i = framesOf(rec.template)
        /\ rec.encCalls = 1 /\ ~rec.encFailed
        /\ rec.putCalls = 1 /\ ~rec.putFailed
  /\ rec.pc = "failed" => rec.status \in {405, 400, 500} /\ rec.body # "videoUrl"

\* The calls of a run are made in the order get, encoder, put, the frames
\* being rendered between the get and the encoder.
CallsInOrder(r) ==
  /\ run'[r].getCalls # run[r].getCalls =>
        run[r].getCalls = 0 /\ run[r].i = 0 /\ run[r].encCalls = 0 /\ run[r].putCalls = 0
  /\ run'[r].i # run[r].i =>
        run[r].getCalls = 1 /\ run[r].encCalls = 0 /\ run[r].putCalls = 0
  /\ run'[r].encCalls # run[r].encCalls =>
        run[r].getCalls = 1 /\ run[r].encCalls = 0 /\ run[r].putCalls = 0
  /\ run'[r].putCalls # run[r].putCalls =>
        run[r].getCalls = 1 /\ run[r].encCalls = 1 /\ run[r].putCalls = 0
  /\ run'[r].responses # run[r].responses => run[r].responses = 0

====
